---------------------------- MODULE Spec2Model ----------------------------
(***************************************************************************)
(* Model of the DXF -> GeoJSON converter (src/dxf_to_geojson.py).          *)
(*                                                                         *)
(* The state is that of one run of convert_dxf: the loop position over the *)
(* model space, the entity being interpreted, the feature list and the two *)
(* tallies.  Coordinates are integer metres; angles are integer "ticks" of *)
(* 1/32 degree, so that every angle the tessellators sample (multiples of  *)
(* 360/64 degrees for a circle, start + sweep*i/32 for an arc with whole   *)
(* degree angles) is an integer.  Geographic coordinates are integers in   *)
(* units of 1e-7 degree, the precision reproject() rounds to.              *)
(***************************************************************************)
EXTENDS Integers, Sequences, FiniteSets, TLC

VARIABLES
    msp_len,    \* len(msp): the number of entities in the model space
    idx,        \* number of entities of the model space consumed so far
    entity,     \* the loop variable: the entity read last
    features,   \* the list `features`
    skipped,    \* the dict `skipped`: kind -> count (absent key = not in DOMAIN)
    filtered,   \* the counter `filtered`
    origin      \* history: origin[k] = position in msp of the entity behind features[k]

vars == <<msp_len, idx, entity, features, skipped, filtered, origin>>

----------------------------------------------------------------------------
(* Bounds of the model *)

MaxEntities == 2

MaxVertices == 3

MaxOrderEntities == 3

----------------------------------------------------------------------------
(* Program constants *)

EastingMin == 150000

EastingMax == 850000

NorthingMin == 3100000

NorthingMax == 4300000

CircleSegments == 64

ArcSegments == 32

ByLayer == 256

----------------------------------------------------------------------------
(* Arithmetic helpers standing for the math library *)

\* One full turn, in ticks of 1/32 degree.
FullTurn == 360 * 32

\* sin of a half-turn argument a in 0..5760 ticks, scaled by 1000
\* (Bhaskara's rational approximation; exact at 0, 90 and 180 degrees).
HalfSine(a) ==
    LET p == (a * (5760 - a)) \div 64
    IN  (4000 * p) \div (648000 - p)

\* math.sin, scaled by 1000, of an angle given in ticks (any integer).
Sin1000(t) ==
    LET r == t % FullTurn
    IN  IF r <= 5760 THEN HalfSine(r) ELSE 0 - HalfSine(r - 5760)

\* math.cos, scaled by 1000.
Cos1000(t) == Sin1000(t + 2880)

\* round(v, 7) for v given in units of 1e-8: round half to even, result in 1e-7.
Round7(v) ==
    LET q == v \div 10
        r == v % 10
    IN  IF r < 5 THEN q
        ELSE IF r > 5 THEN q + 1
        ELSE IF q % 2 = 0 THEN q ELSE q + 1

----------------------------------------------------------------------------
(* Leaf functions of the converter *)

\* transformer.transform(x, y): projected metres -> (lng, lat) in 1e-8 degree,
\* as offsets from the zone's central meridian / the reference parallel of
\* northing 3700000 (a local linearisation of the inverse projection).
transform(x, y) == <<(x - 500000) * 1071, (y - 3700000) * 902>>

\* reproject: transform, then round both to 7 decimals; [lng, lat] order.
reproject(x, y) ==
    LET ll == transform(x, y)
    IN  <<450000000 + Round7(ll[1]), 334300000 + Round7(ll[2])>>

\* Variant of in_utm_range with closed bounds (<= for <).
in_utm_range_closed(x, y) ==
    /\ EastingMin <= x /\ x <= EastingMax
    /\ NorthingMin <= y /\ y <= NorthingMax

in_utm_range(x, y) ==
    /\ EastingMin < x /\ x < EastingMax
    /\ NorthingMin < y /\ y < NorthingMax

\* to_wcs: OCS -> WCS.  With the default extrusion (0,0,1) the OCS is the WCS;
\* with extrusion (0,0,-1) the arbitrary-axis algorithm gives Ax = (-1,0,0),
\* Ay = (0,1,0), i.e. the x coordinate is mirrored.
to_wcs(e, p) == IF e.extrusion = 1 THEN p ELSE <<0 - p[1], p[2]>>

\* The angle of sample i of circle_to_polygon, in ticks: 2*pi*i/segments.
CircleAngle(i, segments) == (FullTurn * i) \div segments

\* Variant of circle_to_polygon that samples range(segments): no closing point.
circle_to_polygon_open(cx, cy, radius, segments) ==
    [k \in 1..segments |->
        LET angle == CircleAngle(k - 1, segments)
        IN  reproject(cx + (radius * Cos1000(angle)) \div 1000,
                      cy + (radius * Sin1000(angle)) \div 1000)]

circle_to_polygon(cx, cy, radius, segments) ==
    [k \in 1..(segments + 1) |->
        LET angle == CircleAngle(k - 1, segments)
        IN  reproject(cx + (radius * Cos1000(angle)) \div 1000,
                      cy + (radius * Sin1000(angle)) \div 1000)]

\* The wrapped end angle of arc_to_linestring, in degrees.
ArcEnd(start_angle, end_angle) ==
    IF end_angle <= start_angle THEN end_angle + 360 ELSE end_angle

\* The angle of sample i of arc_to_linestring, in ticks: sa + (ea - sa)*i/segments.
ArcAngle(start_angle, end_angle, i, segments) ==
    LET sa == start_angle * 32
        ea == ArcEnd(start_angle, end_angle) * 32
    IN  sa + ((ea - sa) * i) \div segments

arc_to_linestring(cx, cy, radius, start_angle, end_angle, segments) ==
    [k \in 1..(segments + 1) |->
        LET angle == ArcAngle(start_angle, end_angle, k - 1, segments)
        IN  reproject(cx + (radius * Cos1000(angle)) \div 1000,
                      cy + (radius * Sin1000(angle)) \div 1000)]

\* entity_color: the colour index as a string, or none (the empty sequence)
\* when it is 0/absent or BYLAYER.
entity_color(e) ==
    IF e.color # 0 /\ e.color # ByLayer THEN <<ToString(e.color)>> ELSE <<>>

make_feature(geom_type, coordinates, properties) ==
    [type |-> "Feature",
     geometry |-> [type |-> geom_type, coordinates |-> coordinates],
     properties |-> properties]

\* props as built at the head of the loop body.
BaseProps(e) ==
    LET c == entity_color(e)
    IN  IF c # <<>>
        THEN [layer |-> e.layer, type |-> e.kind, color |-> c[1]]
        ELSE [layer |-> e.layer, type |-> e.kind]

\* skipped[k] = skipped.get(k, 0) + 1
Bump(d, k) ==
    IF k \in DOMAIN d THEN [d EXCEPT ![k] = d[k] + 1] ELSE d @@ (k :> 1)

\* [(x, y) for x, y in points if in_utm_range(x, y)]
RECURSIVE InRangeOnly(_)
InRangeOnly(points) ==
    IF points = <<>> THEN <<>>
    ELSE LET rest == InRangeOnly(Tail(points))
             p == Head(points)
         IN  IF in_utm_range(p[1], p[2]) THEN <<p>> \o rest ELSE rest


----------------------------------------------------------------------------
(* The dispatch branches of convert_dxf, each as the outcome it has for one *)
(* entity: a feature appended, `filtered += 1; continue`, an exception      *)
(* raised out of the branch, or nothing at all.                             *)

Emitted(f) == [tag |-> "feature", feature |-> f]

Filtered == [tag |-> "filtered"]

Raised == [tag |-> "raised"]

Nothing == [tag |-> "nothing"]

\* LINE, lines 104-113.
LineBranch(e) ==
    IF e.malformed THEN Raised
    ELSE LET s == to_wcs(e, e.pts[1])
             t == to_wcs(e, e.pts[2])
         IN  IF ~in_utm_range(s[1], s[2]) \/ ~in_utm_range(t[1], t[2])
             THEN Filtered
             ELSE Emitted(make_feature("LineString",
                      <<reproject(s[1], s[2]), reproject(t[1], t[2])>>,
                      BaseProps(e)))

\* Variant of PolylineTail that filters the whole polyline as soon as one
\* vertex is out of range.
PolylineTailAllOrNothing(e, points) ==
    LET kept == InRangeOnly(points)
    IN  IF Len(kept) < Len(points) \/ Len(kept) < 2 THEN Filtered
        ELSE LET coords == [k \in 1..Len(kept) |-> reproject(kept[k][1], kept[k][2])]
             IN  IF e.closed
                 THEN Emitted(make_feature("Polygon",
                          <<Append(coords, coords[1])>>, BaseProps(e)))
                 ELSE Emitted(make_feature("LineString", coords, BaseProps(e)))

\* Variant of PolylineTail that forgets coords.append(coords[0]).
PolylineTailUnclosed(e, points) ==
    LET kept == InRangeOnly(points)
    IN  IF Len(kept) < 2 THEN Filtered
        ELSE LET coords == [k \in 1..Len(kept) |-> reproject(kept[k][1], kept[k][2])]
             IN  IF e.closed
                 THEN Emitted(make_feature("Polygon", <<coords>>, BaseProps(e)))
                 ELSE Emitted(make_feature("LineString", coords, BaseProps(e)))

\* The tail shared by both polyline branches: validation, reprojection,
\* ring closure (lines 121-129 and 135-143).
PolylineTail(e, points) ==
    LET kept == InRangeOnly(points)
    IN  IF Len(kept) < 2 THEN Filtered
        ELSE LET coords == [k \in 1..Len(kept) |-> reproject(kept[k][1], kept[k][2])]
             IN  IF e.closed
                 THEN Emitted(make_feature("Polygon",
                          <<Append(coords, coords[1])>>, BaseProps(e)))
                 ELSE Emitted(make_feature("LineString", coords, BaseProps(e)))

\* Variant of LwpolylineBranch that counts a polyline of fewer than 2 raw
\* vertices as filtered.
LwpolylineBranchCounted(e) ==
    IF e.malformed THEN Raised
    ELSE IF Len(e.pts) < 2 THEN Filtered
    ELSE PolylineTail(e, [k \in 1..Len(e.pts) |-> to_wcs(e, e.pts[k])])

\* LWPOLYLINE, lines 115-129.
LwpolylineBranch(e) ==
    IF e.malformed THEN Raised
    ELSE IF Len(e.pts) < 2 THEN Nothing
    ELSE PolylineTail(e, [k \in 1..Len(e.pts) |-> to_wcs(e, e.pts[k])])

\* POLYLINE, lines 131-143.
PolylineBranch(e) ==
    IF e.malformed THEN Raised
    ELSE LET points == [k \in 1..Len(e.pts) |-> to_wcs(e, e.pts[k])]
         IN  IF Len(points) < 2 THEN Nothing
             ELSE PolylineTail(e, points)

\* CIRCLE, lines 145-151.
CircleBranch(e) ==
    IF e.malformed THEN Raised
    ELSE LET c == to_wcs(e, e.pts[1])
         IN  IF ~in_utm_range(c[1], c[2]) THEN Filtered
             ELSE Emitted(make_feature("Polygon",
                      <<circle_to_polygon(c[1], c[2], e.radius, CircleSegments)>>,
                      BaseProps(e)))

\* ARC, lines 153-163.
ArcBranch(e) ==
    IF e.malformed THEN Raised
    ELSE LET c == to_wcs(e, e.pts[1])
         IN  IF ~in_utm_range(c[1], c[2]) THEN Filtered
             ELSE LET coords == arc_to_linestring(c[1], c[2], e.radius,
                                    e.start_angle, e.end_angle, ArcSegments)
                  IN  IF Len(coords) >= 2
                      THEN Emitted(make_feature("LineString", coords, BaseProps(e)))
                      ELSE Nothing

\* POINT, lines 165-170.
PointBranch(e) ==
    IF e.malformed THEN Raised
    ELSE LET p == to_wcs(e, e.pts[1])
         IN  IF ~in_utm_range(p[1], p[2]) THEN Filtered
             ELSE Emitted(make_feature("Point", reproject(p[1], p[2]), BaseProps(e)))

\* props with one more key (props["text"] = ..., props["block"] = ...).
WithProp(props, key, value) == (key :> value) @@ props

\* TEXT, lines 172-187.  pts = <<insert>> or <<insert, align_point>>;
\* text = <<>> when reading entity.dxf.text raises.
TextBranch(e) ==
    IF e.malformed THEN Raised
    ELSE LET pt == IF e.halign # 0 \/ e.valign # 0
                   THEN (IF Len(e.pts) >= 2 THEN e.pts[2] ELSE e.pts[1])
                   ELSE e.pts[1]
             t == to_wcs(e, pt)
         IN  IF ~in_utm_range(t[1], t[2]) THEN Filtered
             ELSE Emitted(make_feature("Point", reproject(t[1], t[2]),
                      WithProp(BaseProps(e), "text",
                               IF e.text # <<>> THEN e.text[1] ELSE "")))

\* MTEXT, lines 189-198.
MtextBranch(e) ==
    IF e.malformed THEN Raised
    ELSE LET m == to_wcs(e, e.pts[1])
         IN  IF ~in_utm_range(m[1], m[2]) THEN Filtered
             ELSE Emitted(make_feature("Point", reproject(m[1], m[2]),
                      WithProp(BaseProps(e), "text",
                               IF e.text # <<>> THEN e.text[1] ELSE "")))

\* INSERT, lines 200-209.  name = <<>> when reading entity.dxf.name raises.
InsertBranch(e) ==
    IF e.malformed THEN Raised
    ELSE LET i == to_wcs(e, e.pts[1])
         IN  IF ~in_utm_range(i[1], i[2]) THEN Filtered
             ELSE Emitted(make_feature("Point", reproject(i[1], i[2]),
                      IF e.name # <<>>
                      THEN WithProp(BaseProps(e), "block", e.name[1])
                      ELSE BaseProps(e)))

\* DIMENSION, lines 211-223: the inner try swallows every exception.
DimensionBranch(e) ==
    IF e.malformed THEN Nothing
    ELSE LET d1 == to_wcs(e, e.pts[1])
             d2 == to_wcs(e, e.pts[2])
         IN  IF ~in_utm_range(d1[1], d1[2]) \/ ~in_utm_range(d2[1], d2[2])
             THEN Filtered
             ELSE Emitted(make_feature("LineString",
                      <<reproject(d1[1], d1[2]), reproject(d2[1], d2[2])>>,
                      BaseProps(e)))

Recognised ==
    {"LINE", "LWPOLYLINE", "POLYLINE", "CIRCLE", "ARC", "POINT",
     "TEXT", "MTEXT", "INSERT", "DIMENSION"}

----------------------------------------------------------------------------
(* The loop of convert_dxf *)

\* for entity in msp: the next entity is read.
ReadEntity(e) ==
    /\ idx < msp_len
    /\ idx' = idx + 1
    /\ msp_len' = msp_len
    /\ entity' = e

\* Variant of AppendFeature that inserts at the head: features.insert(0, f).
PrependFeature(fs, f) == <<f>> \o fs

\* features.append(f)
AppendFeature(fs, f) == Append(fs, f)

\* Variant of CountSkipped that overwrites the count: skipped[kind] = 1.
CountSkippedOverwrite(d, kind) == (kind :> 1) @@ d

\* The dict update of lines 226 and 229.
CountSkipped(d, kind) == Bump(d, kind)

\* The effect of one branch outcome on the run's state; an exception raised
\* out of a branch lands in the handler of lines 228-229.
Apply(e, outcome) ==
    CASE outcome.tag = "feature" ->
            /\ features' = AppendFeature(features, outcome.feature)
            /\ origin' = Append(origin, idx + 1)
            /\ UNCHANGED <<skipped, filtered>>
      [] outcome.tag = "filtered" ->
            /\ filtered' = filtered + 1
            /\ UNCHANGED <<features, origin, skipped>>
      [] outcome.tag = "raised" ->
            /\ skipped' = CountSkipped(skipped, e.kind)
            /\ UNCHANGED <<features, origin, filtered>>
      [] OTHER ->
            UNCHANGED <<features, origin, skipped, filtered>>

ConvertLine(e) ==
    e.kind = "LINE" /\ ReadEntity(e) /\ Apply(e, LineBranch(e))

ConvertLwpolyline(e) ==
    e.kind = "LWPOLYLINE" /\ ReadEntity(e) /\ Apply(e, LwpolylineBranch(e))

ConvertPolyline(e) ==
    e.kind = "POLYLINE" /\ ReadEntity(e) /\ Apply(e, PolylineBranch(e))

ConvertCircle(e) ==
    e.kind = "CIRCLE" /\ ReadEntity(e) /\ Apply(e, CircleBranch(e))

ConvertArc(e) ==
    e.kind = "ARC" /\ ReadEntity(e) /\ Apply(e, ArcBranch(e))

ConvertPoint(e) ==
    e.kind = "POINT" /\ ReadEntity(e) /\ Apply(e, PointBranch(e))

ConvertText(e) ==
    e.kind = "TEXT" /\ ReadEntity(e) /\ Apply(e, TextBranch(e))

ConvertMtext(e) ==
    e.kind = "MTEXT" /\ ReadEntity(e) /\ Apply(e, MtextBranch(e))

ConvertInsert(e) ==
    e.kind = "INSERT" /\ ReadEntity(e) /\ Apply(e, InsertBranch(e))

ConvertDimension(e) ==
    e.kind = "DIMENSION" /\ ReadEntity(e) /\ Apply(e, DimensionBranch(e))

\* The else branch, lines 225-226.
ConvertOther(e) ==
    /\ e.kind \notin Recognised
    /\ ReadEntity(e)
    /\ skipped' = CountSkipped(skipped, e.kind)
    /\ UNCHANGED <<features, origin, filtered>>

----------------------------------------------------------------------------
(* The entities a model space is drawn from *)

\* The i-th plausible point (distinct for distinct i) and an implausible one,
\* the local-origin point of Scenario C.
InPt(i) == <<300000 + 100 * i, 3600000 + 100 * i>>

OutPt == <<10, 10>>

NoEntity == [kind |-> "(none)"]

Ent(kind) ==
    [kind |-> kind, malformed |-> FALSE, layer |-> "0", color |-> ByLayer,
     extrusion |-> 1, pts |-> <<>>, closed |-> FALSE, radius |-> 0,
     start_angle |-> 0, end_angle |-> 0, halign |-> 0, valign |-> 0,
     text |-> <<>>, name |-> <<>>]

\* The vertex list of length n whose vertex i is InPt(i), except that the
\* vertices at the positions in S are out of range.
VertexList(n, S) == [i \in 1..n |-> IF i \in S THEN OutPt ELSE InPt(i)]

\* Vertex lists of up to MaxVertices vertices with no vertex, any single
\* vertex, or every vertex out of range.
VertexLists ==
    UNION {{VertexList(n, {}), VertexList(n, 1..n)}
           \cup {VertexList(n, {k}) : k \in 1..n} : n \in 0..MaxVertices}

\* Vertex lists with no vertex or the last vertex out of range.
FewVertexLists ==
    UNION {{VertexList(n, {}), VertexList(n, {n})} : n \in 0..MaxVertices}

LwpolylineEntities ==
    {[Ent("LWPOLYLINE") EXCEPT !.pts = v, !.closed = c] :
        v \in VertexLists, c \in BOOLEAN}

PolylineEntities ==
    {[Ent("POLYLINE") EXCEPT !.pts = v, !.closed = c] :
        v \in FewVertexLists, c \in BOOLEAN}

LineEntities ==
    {[Ent("LINE") EXCEPT !.pts = <<s, t>>] :
        s \in {InPt(1), OutPt}, t \in {InPt(2), OutPt}}
    \cup {[Ent("LINE") EXCEPT !.pts = <<InPt(1), InPt(2)>>, !.color = c,
                                !.layer = "walls"] : c \in {0, 1}}

CircleEntities ==
    {[Ent("CIRCLE") EXCEPT !.pts = <<InPt(1)>>, !.radius = r] :
        r \in {0, -10, 10, 500000}}
    \cup {[Ent("CIRCLE") EXCEPT !.pts = <<OutPt>>, !.radius = 10]}

\* <<start_angle, end_angle>> in degrees.
ArcAngles ==
    {<<0, 90>>, <<90, 0>>, <<30, 30>>, <<350, 10>>, <<-90, 90>>,
     <<0, 360>>, <<0, -400>>, <<0, 720>>}

ArcEntities ==
    {[Ent("ARC") EXCEPT !.pts = <<InPt(1)>>, !.radius = 10,
                        !.start_angle = a[1], !.end_angle = a[2]] : a \in ArcAngles}
    \cup {[Ent("ARC") EXCEPT !.pts = <<OutPt>>, !.radius = 10, !.end_angle = 90]}

\* Locations on and next to every bound of the plausibility box.
PointLocations ==
    {InPt(1), OutPt,
     <<EastingMin, 3600000>>, <<EastingMax, 3600000>>,
     <<300000, NorthingMin>>, <<300000, NorthingMax>>,
     <<EastingMin + 1, NorthingMin + 1>>, <<EastingMax - 1, NorthingMax - 1>>}

PointEntities ==
    {[Ent("POINT") EXCEPT !.pts = <<p>>] : p \in PointLocations}
    \cup {[Ent("POINT") EXCEPT !.pts = <<p>>, !.extrusion = -1] :
            p \in {InPt(1), <<-300000, 3600000>>}}

TextEntities ==
    {[Ent("TEXT") EXCEPT !.pts = <<InPt(1), OutPt>>, !.halign = h,
                         !.text = <<"label">>] : h \in {0, 1}}
    \cup {[Ent("TEXT") EXCEPT !.pts = <<OutPt, InPt(2)>>, !.valign = 1],
          [Ent("TEXT") EXCEPT !.pts = <<InPt(1)>>, !.halign = 1]}

MtextEntities ==
    {[Ent("MTEXT") EXCEPT !.pts = <<InPt(1)>>, !.text = <<"note">>],
     [Ent("MTEXT") EXCEPT !.pts = <<OutPt>>]}

InsertEntities ==
    {[Ent("INSERT") EXCEPT !.pts = <<InPt(1)>>, !.name = <<"tree">>],
     [Ent("INSERT") EXCEPT !.pts = <<InPt(1)>>],
     [Ent("INSERT") EXCEPT !.pts = <<OutPt>>]}

DimensionEntities ==
    {[Ent("DIMENSION") EXCEPT !.pts = <<s, t>>] :
        s \in {InPt(1), OutPt}, t \in {InPt(2), OutPt}}

\* An entity whose required attributes cannot be read: extraction raises.
MalformedEntities == {[Ent(k) EXCEPT !.malformed = TRUE] : k \in Recognised}

OtherEntities == {Ent("HATCH"), Ent("SPLINE")}

Entities ==
    LineEntities \cup LwpolylineEntities \cup PolylineEntities
    \cup CircleEntities \cup ArcEntities \cup PointEntities \cup TextEntities
    \cup MtextEntities \cup InsertEntities \cup DimensionEntities
    \cup MalformedEntities \cup OtherEntities

----------------------------------------------------------------------------
(* Specification *)

Start ==
    /\ idx = 0
    /\ entity = NoEntity
    /\ features = <<>>
    /\ skipped = <<>>
    /\ filtered = 0
    /\ origin = <<>>

Init == msp_len = MaxEntities /\ Start

Next ==
    \E e \in Entities :
    \/ ConvertLine(e)
    \/ ConvertLwpolyline(e)
    \/ ConvertPolyline(e)
    \/ ConvertCircle(e)
    \/ ConvertArc(e)
    \/ ConvertPoint(e)
    \/ ConvertText(e)
    \/ ConvertMtext(e)
    \/ ConvertInsert(e)
    \/ ConvertDimension(e)
    \/ ConvertOther(e)


Spec == Init /\ [][Next]_vars

\* Short model spaces of every kind, for the properties of longer runs.
BriefEntities ==
    {[Ent("LINE") EXCEPT !.pts = <<InPt(1), InPt(2)>>],
     [Ent("LINE") EXCEPT !.pts = <<InPt(1), OutPt>>],
     [Ent("LWPOLYLINE") EXCEPT !.pts = VertexList(3, {2})],
     [Ent("LWPOLYLINE") EXCEPT !.pts = VertexList(1, {})],
     [Ent("POLYLINE") EXCEPT !.pts = VertexList(3, {}), !.closed = TRUE],
     [Ent("CIRCLE") EXCEPT !.pts = <<InPt(1)>>, !.radius = 10],
     [Ent("ARC") EXCEPT !.pts = <<InPt(1)>>, !.radius = 10, !.end_angle = 90],
     [Ent("POINT") EXCEPT !.pts = <<InPt(1)>>],
     [Ent("TEXT") EXCEPT !.pts = <<InPt(1)>>, !.text = <<"label">>],
     [Ent("MTEXT") EXCEPT !.pts = <<InPt(1)>>, !.text = <<"note">>],
     [Ent("INSERT") EXCEPT !.pts = <<InPt(1)>>, !.name = <<"tree">>],
     [Ent("DIMENSION") EXCEPT !.pts = <<InPt(1), InPt(2)>>],
     [Ent("DIMENSION") EXCEPT !.malformed = TRUE],
     [Ent("CIRCLE") EXCEPT !.malformed = TRUE],
     Ent("HATCH")}

InitOrder == msp_len = MaxOrderEntities /\ Start

NextOrder ==
    \E e \in BriefEntities :
    \/ ConvertLine(e)
    \/ ConvertLwpolyline(e)
    \/ ConvertPolyline(e)
    \/ ConvertCircle(e)
    \/ ConvertArc(e)
    \/ ConvertPoint(e)
    \/ ConvertText(e)
    \/ ConvertMtext(e)
    \/ ConvertInsert(e)
    \/ ConvertDimension(e)
    \/ ConvertOther(e)

SpecOrder == InitOrder /\ [][NextOrder]_vars

----------------------------------------------------------------------------
(* Vocabulary of the properties *)

\* A step of the loop (as opposed to stuttering): one more entity consumed.
Step == idx' = idx + 1

\* skipped.get(k, 0)
Count(d, k) == IF k \in DOMAIN d THEN d[k] ELSE 0

RECURSIVE SumCounts(_)
SumCounts(d) ==
    IF DOMAIN d = {} THEN 0
    ELSE LET k == CHOOSE j \in DOMAIN d : TRUE
         IN  d[k] + SumCounts([j \in DOMAIN d \ {k} |-> d[j]])

Total == Len(features) + filtered + SumCounts(skipped)

\* The plausibility box as the specification states it (open intervals).
Plausible(p) ==
    /\ 150000 < p[1] /\ p[1] < 850000
    /\ 3100000 < p[2] /\ p[2] < 4300000

\* The defining points of a well-formed entity of a recognised kind, in WCS.
DefiningPoints(e) ==
    CASE e.kind \in {"LINE", "DIMENSION"} ->
            <<to_wcs(e, e.pts[1]), to_wcs(e, e.pts[2])>>
      [] e.kind \in {"LWPOLYLINE", "POLYLINE"} ->
            [k \in 1..Len(e.pts) |-> to_wcs(e, e.pts[k])]
      [] e.kind = "TEXT" ->
            <<to_wcs(e, IF (e.halign # 0 \/ e.valign # 0) /\ Len(e.pts) >= 2
                        THEN e.pts[2] ELSE e.pts[1])>>
      [] OTHER -> <<to_wcs(e, e.pts[1])>>

WellFormed(e) == e.kind \in Recognised /\ ~e.malformed

SomePointFails(e) ==
    \E k \in 1..Len(DefiningPoints(e)) : ~Plausible(DefiningPoints(e)[k])

\* The defining points that pass, in their order.
Surviving(e) == SelectSeq(DefiningPoints(e), Plausible)

IsPolyline(e) == e.kind \in {"LWPOLYLINE", "POLYLINE"}

\* The entity read last has a feature, which is the last one of the list.
LastEmitted ==
    /\ idx > 0
    /\ origin # <<>>
    /\ origin[Len(origin)] = idx
    /\ Len(features) = Len(origin)

LastFeature == features[Len(features)]

\* This step appended exactly one feature and changed nothing before it.
AppendedOne ==
    /\ Len(features') = Len(features) + 1
    /\ SubSeq(features', 1, Len(features)) = features

NewFeature == features'[Len(features')]

\* This step is `filtered += 1; continue` and nothing else.
FilteredOnce ==
    /\ features' = features
    /\ filtered' = filtered + 1
    /\ skipped' = skipped

----------------------------------------------------------------------------
(* C1 *)

\* C1, as claimed: whenever any defining point of a well-formed entity of a
\* recognised kind fails the plausibility check, the entity emits no feature
\* and filtered grows by exactly one.
C1_AnyFailingPointFiltersEntity ==
    [][Step /\ WellFormed(entity') /\ SomePointFails(entity') => FilteredOnce]_vars

\* C1, amended: that holds for every recognised kind but the two polylines.
\* A polyline drops its failing vertices one by one: with fewer than 2 raw
\* vertices it changes nothing; with fewer than 2 passing vertices it is
\* filtered once; otherwise it emits one feature built from the passing
\* vertices and filtered stays as it was.
C1_FailingPointFiltersUnlessPolylineSurvives ==
    [][Step /\ WellFormed(entity') /\ SomePointFails(entity') =>
        IF ~IsPolyline(entity') THEN FilteredOnce
        ELSE IF Len(entity'.pts) < 2
             THEN features' = features /\ filtered' = filtered /\ skipped' = skipped
        ELSE IF Len(Surviving(entity')) < 2 THEN FilteredOnce
        ELSE /\ AppendedOne
             /\ filtered' = filtered
             /\ skipped' = skipped
             /\ LET c == NewFeature.geometry.coordinates
                IN  IF entity'.closed
                    THEN Len(c[1]) = Len(Surviving(entity')) + 1
                    ELSE Len(c) = Len(Surviving(entity'))]_vars

\* A polyline with an out-of-range vertex whose other vertices were emitted,
\* after a line with one failing end was filtered.
C1_Witness ==
    /\ LastEmitted
    /\ IsPolyline(entity)
    /\ SomePointFails(entity)
    /\ filtered = 1
    /\ idx = 2

----------------------------------------------------------------------------
(* C2 *)

\* C2, as claimed: every LineString has at least 2 coordinates and every
\* Polygon ring at least 4; a degenerate ring is never emitted.
C2_NoDegenerateGeometry ==
    \A k \in 1..Len(features) :
        LET g == features[k].geometry
        IN  /\ g.type = "LineString" => Len(g.coordinates) >= 2
            /\ g.type = "Polygon" => Len(g.coordinates[1]) >= 4

----------------------------------------------------------------------------
(* C3 *)

\* C3: every Polygon has exactly one ring whose first and last coordinates
\* are equal; a closed polyline's ring is its reprojected surviving vertices
\* in order followed by the first of them; an open polyline is a LineString
\* of exactly its reprojected surviving vertices.
C3_RingsClosedAndPolylineShape ==
    /\ \A k \in 1..Len(features) :
          LET g == features[k].geometry
          IN  g.type = "Polygon" =>
                /\ Len(g.coordinates) = 1
                /\ g.coordinates[1][1] = g.coordinates[1][Len(g.coordinates[1])]
    /\ (LastEmitted /\ IsPolyline(entity)) =>
          LET g == LastFeature.geometry
              v == Surviving(entity)
              r == [k \in 1..Len(v) |-> reproject(v[k][1], v[k][2])]
          IN  IF entity.closed
              THEN /\ g.type = "Polygon"
                   /\ Len(g.coordinates[1]) = Len(v) + 1
                   /\ SubSeq(g.coordinates[1], 1, Len(v)) = r
                   /\ g.coordinates[1][Len(v) + 1] = r[1]
              ELSE /\ g.type = "LineString"
                   /\ g.coordinates = r
                   /\ Len(g.coordinates) = Len(v)

\* A closed polyline of three vertices, the middle one out of range, emitted
\* as a ring of three coordinates, after an open polyline of three valid
\* vertices (Scenario E) was emitted as a LineString of three.
C3_Witness ==
    /\ LastEmitted
    /\ idx = 2
    /\ Len(features) = 2
    /\ features[1].geometry.type = "LineString"
    /\ Len(features[1].geometry.coordinates) = 3
    /\ IsPolyline(entity)
    /\ entity.closed
    /\ Len(entity.pts) = 3
    /\ SomePointFails(entity)
    /\ LastFeature.geometry.type = "Polygon"

----------------------------------------------------------------------------
(* C4 *)

\* C4: a step appends at most one feature, for the entity it read, and never
\* removes, reorders or changes one appended before; the features are in the
\* order of the entities behind them.
C4_FeaturesInInputOrder ==
    /\ [](/\ Len(origin) = Len(features)
          /\ \A j, k \in 1..Len(origin) : j < k => origin[j] < origin[k]
          /\ \A k \in 1..Len(origin) : origin[k] <= idx)
    /\ [][Step => \/ features' = features
                  \/ /\ AppendedOne
                     /\ NewFeature.properties.type = entity'.kind]_vars

\* Two features whose entities were first and third: the second entity
\* emitted nothing.
C4_Witness ==
    /\ idx = 3
    /\ origin = <<1, 3>>
    /\ features[1].geometry.type = "Polygon"
    /\ features[2].geometry.type = "LineString"

----------------------------------------------------------------------------
(* C5 *)

\* C5, as claimed: an entity of any recognised kind (DIMENSION included)
\* whose interpretation raises emits no feature, adds exactly one to
\* skipped[kind] and leaves filtered alone.
C5_EveryFailureIsCounted ==
    [][Step /\ entity'.kind \in Recognised /\ entity'.malformed =>
        /\ features' = features
        /\ filtered' = filtered
        /\ Count(skipped', entity'.kind) = Count(skipped, entity'.kind) + 1]_vars

----------------------------------------------------------------------------
(* C6 *)

\* C6: an entity of an unrecognised kind emits no feature, adds exactly one
\* to skipped under its own kind name, and leaves filtered, every other
\* kind's count and the features alone.
C6_UnrecognisedKindCounted ==
    [][Step /\ entity'.kind \notin Recognised =>
        /\ features' = features
        /\ filtered' = filtered
        /\ Count(skipped', entity'.kind) = Count(skipped, entity'.kind) + 1
        /\ \A k \in (DOMAIN skipped \cup DOMAIN skipped') \ {entity'.kind} :
              Count(skipped', k) = Count(skipped, k)]_vars

\* A second HATCH after a first: its count is 2.
C6_Witness ==
    /\ idx = 2
    /\ entity.kind = "HATCH"
    /\ Count(skipped, "HATCH") = 2
    /\ features = <<>>

----------------------------------------------------------------------------
(* C7 *)

\* C7, as claimed: for an arc of any start and end angle, the end angle is
\* raised by 360 when end <= start, and the sweep after this one wrapping
\* lies in (0, 360].
C7_SweepWithinOneTurn ==
    (LastEmitted /\ entity.kind = "ARC") =>
        LET sweep == ArcEnd(entity.start_angle, entity.end_angle) - entity.start_angle
        IN  /\ entity.end_angle <= entity.start_angle =>
                ArcEnd(entity.start_angle, entity.end_angle) = entity.end_angle + 360
            /\ 0 < sweep
            /\ sweep <= 360

----------------------------------------------------------------------------
(* C8 *)

\* C8: a well-formed CIRCLE whose centre is plausible emits, whatever its
\* radius, exactly one Polygon feature with a single ring of 65 coordinates,
\* the first equal to the last, sampled from angle 0 in equal steps: the
\* samples at 0, 16, 32 and 48 are the reprojected east, north, west and
\* south points of the circle.  The perimeter is never range-checked.
C8_CircleRingOf65 ==
    [][Step /\ entity'.kind = "CIRCLE" /\ ~entity'.malformed
            /\ Plausible(to_wcs(entity', entity'.pts[1])) =>
        /\ AppendedOne
        /\ filtered' = filtered
        /\ skipped' = skipped
        /\ LET g == NewFeature.geometry
               c == to_wcs(entity', entity'.pts[1])
               r == entity'.radius
           IN  /\ g.type = "Polygon"
               /\ Len(g.coordinates) = 1
               /\ Len(g.coordinates[1]) = 65
               /\ g.coordinates[1][1] = g.coordinates[1][65]
               /\ g.coordinates[1][1] = reproject(c[1] + r, c[2])
               /\ g.coordinates[1][17] = reproject(c[1], c[2] + r)
               /\ g.coordinates[1][33] = reproject(c[1] - r, c[2])
               /\ g.coordinates[1][49] = reproject(c[1], c[2] - r)]_vars

\* A circle of radius 500000 around a plausible centre, emitted although its
\* perimeter leaves the plausibility box, after a circle of negative radius.
C8_Witness ==
    /\ LastEmitted
    /\ idx = 2
    /\ Len(features) = 2
    /\ entity.kind = "CIRCLE"
    /\ entity.radius = 500000
    /\ ~Plausible(<<entity.pts[1][1] - entity.radius, entity.pts[1][2]>>)
    /\ features[1].properties.type = "CIRCLE"
    /\ features[1] # features[2]

----------------------------------------------------------------------------
(* C9 *)

\* C9: in_utm_range is exactly the open box 150000 < x < 850000,
\* 3100000 < y < 4300000, and a well-formed POINT outside it (on a bound, or
\* at (10, 10)) emits nothing, adds exactly one to filtered and leaves
\* skipped alone, while one inside it emits a Point feature.
C9_OpenBoundsFilterPoint ==
    /\ [](\A e \in PointEntities :
            LET p == to_wcs(e, e.pts[1])
            IN  in_utm_range(p[1], p[2]) <=> Plausible(p))
    /\ [][Step /\ entity'.kind = "POINT" /\ ~entity'.malformed =>
            IF Plausible(to_wcs(entity', entity'.pts[1]))
            THEN AppendedOne /\ NewFeature.geometry.type = "Point"
                 /\ filtered' = filtered
            ELSE FilteredOnce]_vars

\* A POINT exactly on the western bound filtered after the POINT at (10, 10).
C9_Witness ==
    /\ idx = 2
    /\ entity.kind = "POINT"
    /\ ~entity.malformed
    /\ entity.pts[1][1] = 150000
    /\ Plausible(<<entity.pts[1][1] + 1, entity.pts[1][2]>>)
    /\ filtered = 2
    /\ features = <<>>
    /\ DOMAIN skipped = {}

----------------------------------------------------------------------------
(* C10 *)

\* The two cases in which an entity changes no tally.
ChangesNoTally(e) ==
    \/ IsPolyline(e) /\ ~e.malformed /\ Len(e.pts) < 2
    \/ e.kind = "DIMENSION" /\ e.malformed

\* C10: features, filtered and the skipped counts never add up to more than
\* the entities read; each entity changes at most one of the three, by
\* exactly one, and changes none exactly when it is a polyline with fewer
\* than 2 raw vertices or a DIMENSION whose extraction raises.
C10_Accounting ==
    /\ [](Total <= idx)
    /\ [][Step =>
            LET df == Len(features') - Len(features)
                dl == filtered' - filtered
                ds == SumCounts(skipped') - SumCounts(skipped)
            IN  /\ df \in {0, 1} /\ dl \in {0, 1} /\ ds \in {0, 1}
                /\ df + dl + ds = (IF ChangesNoTally(entity') THEN 0 ELSE 1)]_vars

\* Two entities read, one of them a one-vertex polyline: the tallies add up
\* to one.
C10_Witness ==
    /\ idx = 2
    /\ IsPolyline(entity)
    /\ Len(entity.pts) = 1
    /\ Total = 1
    /\ SumCounts(skipped) = 1

=============================================================================
